---- MODULE Spec2Model ----
(***************************************************************************)
(* The meeting registry of chime-backend: the `meetings` object of         *)
(* src/index.js and src/server.js, the express handlers that read and      *)
(* write it, the remote Chime client they await, and the periodic          *)
(* cleanupExpiredMeetings.                                                 *)
(*                                                                         *)
(* Node runs every handler to its next `await` without interruption, so    *)
(* one action is one such run: the part of a handler before its await, or  *)
(* the part after it.  A handler suspended on chimeClient.send occupies a  *)
(* slot of `task` until the remote answer arrives.                         *)
(***************************************************************************)
EXTENDS Integers, Sequences, FiniteSets, TLC

\* ------------------------------------------------------------ bounds
MaxMeetings  == 2   \* meetings the remote provider will create
MaxAttendees == 2   \* attendees the remote provider will create
MaxTasks     == 2   \* requests that can be suspended at the same time
MaxCycles    == 1   \* cleanup cycles that can be suspended at the same time
MaxTicks     == 2   \* instants of the clock after the first

ClockStep == 60 * 60 * 1000           \* the clock is sampled every 60 minutes
EXPIRY_MS == 60 * 60 * 1000
MEETING_EXPIRY_MINUTES == 60          \* declared by the source, read nowhere

MeetingIds == 1 .. MaxMeetings
NoId       == 0                       \* a request without meetingId (undefined)
UserIds    == {"u1", "u2"}
UserNames  == {"", "Ana"}             \* "" : the request carries no userName
Tasks      == 1 .. MaxTasks
Cycles     == 1 .. MaxCycles
Entries    == {"index.js", "server.js"}

VARIABLES
    entry,        \* the file node was started with
    clock,        \* Date.now(), in ms
    meetings,     \* let meetings = {} : meetingId -> record
    task,         \* per slot, the request handler suspended on an await
    cycles,       \* per slot, the cleanup cycle suspended on an await
    nextMeetingId,\* remote provider: the next MeetingId it assigns
    attendeeLog,  \* remote provider: the attendees it created, by AttendeeId
    deleteCalls,  \* remote provider: DeleteMeeting commands received, per id
    res           \* what the last step sent: an HTTP response, or the end of a cycle

vars == <<entry, clock, meetings, task, cycles, nextMeetingId, attendeeLog,
          deleteCalls, res>>

\* ------------------------------------------------------------ JavaScript values
\* A Date.now() number, the text toISOString() makes of it, and NaN.
Number(ms)   == [type |-> "number", ms |-> ms]
NaN          == [type |-> "NaN", ms |-> 0]
toISOString(ms) == [type |-> "string", ms |-> ms]

\* ToNumber of the binary `-`: a string that is no numeric literal (an ISO
\* date never is one) converts to NaN.
ToNumber(v) == IF v.type = "string" THEN NaN ELSE v

Minus(a, b) ==
    LET x == ToNumber(a)
        y == ToNumber(b)
    IN  IF x.type = "NaN" \/ y.type = "NaN" THEN NaN ELSE Number(x.ms - y.ms)

\* a > b : false as soon as one side is NaN
GreaterThan(a, b) ==
    LET x == ToNumber(a)
        y == ToNumber(b)
    IN  x.type # "NaN" /\ y.type # "NaN" /\ x.ms > y.ms

\* ------------------------------------------------------------ remote provider
Ok == [name |-> "ok", message |-> ""]

ChimeErrors ==
    { [name |-> "AccessDeniedException", message |-> "User is not authorized to perform this action"],
      [name |-> "ForbiddenException", message |-> "Access Denied"],
      [name |-> "ServiceUnavailableException", message |-> "Service unavailable"] }

TypeError == [name |-> "TypeError", message |-> "Cannot read properties of undefined"]

\* String.prototype.includes on the messages above
Includes(message, pattern) ==
    \/ message = "User is not authorized to perform this action" /\ pattern = "not authorized"
    \/ message = "Access Denied" /\ pattern = "Access Denied"

\* The answers of the remote call.  Only /start-transcription looks at the
\* error it catches; for the other commands one error stands for all.
Failure == [name |-> "ServiceUnavailableException", message |-> "Service unavailable"]

Outcomes == {Ok, Failure}

StartOutcomes == {Ok} \cup ChimeErrors

\* ------------------------------------------------------------ the registry
EmptyObject == [k \in {} |-> 0]

\* the registry emptied instead of one key deleted: meetings = {}
DeleteEverything(obj, k) == [x \in {} |-> obj[x]]

\* obj[k] = v, and delete obj[k]
Put(obj, k, v) == [x \in (DOMAIN obj) \cup {k} |-> IF x = k THEN v ELSE obj[x]]
Delete(obj, k) == [x \in (DOMAIN obj) \ {k} |-> obj[x]]

\* Object.keys(meetings): insertion order.  The provider's ids are numbered
\* in the order its answers arrive, which is the order of insertion.
Keys(obj) ==
    LET S == DOMAIN obj
    IN  [i \in 1 .. Cardinality(S) |-> CHOOSE k \in S : Cardinality({j \in S : j < k}) = i - 1]

\* meetings[meetingId] is truthy
Has(meetingId) == meetingId \in DOMAIN meetings

\* the guard without its look-up in the registry: !meetingId
NotFoundUnlessLookedUp(meetingId) == meetingId = NoId

\* !meetingId || !meetings[meetingId]
NotFound(meetingId) == meetingId = NoId \/ ~Has(meetingId)

\* the check for a user who is already in the meeting, left out
AlreadyJoinedUnchecked(meetingId, userId) == FALSE

\* meetings[meetingId].attendees[userId] is truthy
AlreadyJoined(meetingId, userId) == userId \in DOMAIN meetings[meetingId].attendees

\* the record stored with the transcription already on
NewMeetingTranscribing(meetingId, Meeting, userId) ==
    [ meetingId            |-> meetingId,
      Meeting              |-> Meeting,
      creationTime         |-> toISOString(clock),
      attendees            |-> EmptyObject,
      transcriptionEnabled |-> TRUE,
      transcriptionMethod  |-> "aws",
      creatorId            |-> userId ]

\* the record /create-meeting stores
NewMeeting(meetingId, Meeting, userId) ==
    [ meetingId            |-> meetingId,
      Meeting              |-> Meeting,
      creationTime         |-> toISOString(clock),
      attendees            |-> EmptyObject,
      transcriptionEnabled |-> FALSE,
      transcriptionMethod  |-> "undefined",
      creatorId            |-> userId ]

\* the record /join-meeting stores
NewAttendee(userId, userName, Attendee) ==
    [ userId       |-> userId,
      userName     |-> IF userName = "" THEN userId ELSE userName,
      joinTime     |-> toISOString(clock),
      attendeeInfo |-> Attendee ]

\* the copy of the meeting /join-meeting answers with
MeetingInfo(meetingId) ==
    [ Meeting              |-> meetings[meetingId].Meeting,
      meetingId            |-> meetings[meetingId].meetingId,
      creationTime         |-> meetings[meetingId].creationTime,
      transcriptionEnabled |-> meetings[meetingId].transcriptionEnabled ]

\* ------------------------------------------------------------ tasks and responses
Idle == [pc |-> "idle", route |-> "", meetingId |-> NoId, userId |-> "", userName |-> "", local |-> FALSE]

\* requests handled one at a time: none starts while another is suspended
FreeWhenNoneWaits(t) == t = 1 /\ \A s \in Tasks : task[s].pc = "idle"

\* A request takes the first free slot: the slots are interchangeable.
Free(t) == task[t].pc = "idle" /\ \A s \in Tasks : s < t => task[s].pc # "idle"

Suspended(pc, route, meetingId, userId, userName, local) ==
    [pc |-> pc, route |-> route, meetingId |-> meetingId, userId |-> userId,
     userName |-> userName, local |-> local]

NoBody == [none |-> TRUE]

\* res.json / res.status(..).json of a handler: the route and the meetingId
\* of the request it answers, the status, the error the handler ended on
\* (the remote call's, or a TypeError of its own; Ok without one), the number
\* of remote calls it made, and the body.
Response(route, meetingId, status, error, calls, body) ==
    [ op |-> route, meetingId |-> meetingId, status |-> status,
      error |-> error.name, calls |-> calls, body |-> body ]

NoRes == [ op |-> "none", meetingId |-> NoId, status |-> 0,
           error |-> "ok", calls |-> 0, body |-> NoBody ]

Init ==
    /\ entry \in Entries
    /\ clock = 0
    /\ meetings = EmptyObject
    /\ task = [t \in Tasks |-> Idle]
    /\ cycles = [c \in Cycles |-> [pc |-> "idle", now |-> 0, keys |-> <<>>, meetingId |-> NoId]]
    /\ nextMeetingId = 1
    /\ attendeeLog = <<>>
    /\ deleteCalls = [m \in MeetingIds |-> 0]
    /\ res = NoRes

\* ------------------------------------------------------------ GET /list-meetings
\* attendeeCount taken from the keys of the meeting, not of its attendees
ProjectionOfKeys(meetingId) ==
    LET meeting == meetings[meetingId]
    IN  [ meetingId            |-> meetingId,
          externalMeetingId    |-> IF meeting.Meeting.ExternalMeetingId # ""
                                   THEN meeting.Meeting.ExternalMeetingId
                                   ELSE "Sin ID externo",
          creationTime         |-> meeting.creationTime,
          attendeeCount        |-> Cardinality(DOMAIN meeting),
          transcriptionEnabled |-> meeting.transcriptionEnabled ]

Projection(meetingId) ==
    LET meeting == meetings[meetingId]
    IN  [ meetingId            |-> meetingId,
          externalMeetingId    |-> IF meeting.Meeting.ExternalMeetingId # ""
                                   THEN meeting.Meeting.ExternalMeetingId
                                   ELSE "Sin ID externo",
          creationTime         |-> meeting.creationTime,
          attendeeCount        |-> Cardinality(DOMAIN meeting.attendees),
          transcriptionEnabled |-> meeting.transcriptionEnabled ]

listMeetings ==
    /\ res' = Response("/list-meetings", NoId, 200, Ok, 0,
                       [list |-> [i \in 1 .. Len(Keys(meetings)) |-> Projection(Keys(meetings)[i])]])
    /\ UNCHANGED <<entry, clock, meetings, task, cycles, nextMeetingId, attendeeLog, deleteCalls>>

\* ------------------------------------------------------------ POST /join-meeting
JoinBody(meetingId, userId, Attendee) ==
    [ meetingInfo  |-> MeetingInfo(meetingId),
      attendeeInfo |-> Attendee,
      isCreator    |-> userId = meetings[meetingId].creatorId ]

joinMeeting(t, meetingId, userId, userName) ==
    /\ Free(t)
    /\ IF NotFound(meetingId)
       THEN /\ res' = Response("/join-meeting", meetingId, 404, Ok, 0, NoBody)
            /\ UNCHANGED task
       ELSE IF ~Has(meetingId)
       THEN \* meetings[meetingId] is undefined: the property read throws
            /\ res' = Response("/join-meeting", meetingId, 500, TypeError, 0, NoBody)
            /\ UNCHANGED task
       ELSE IF AlreadyJoined(meetingId, userId)
       THEN /\ res' = Response("/join-meeting", meetingId, 200, Ok, 0,
                        JoinBody(meetingId, userId, meetings[meetingId].attendees[userId].attendeeInfo))
            /\ UNCHANGED task
       ELSE /\ task' = [task EXCEPT ![t] =
                        Suspended("awaitCreateAttendee", "/join-meeting", meetingId, userId, userName, FALSE)]
            /\ res' = NoRes
    /\ UNCHANGED <<entry, clock, meetings, cycles, nextMeetingId, attendeeLog, deleteCalls>>

\* the attendee entry written before the remote call has answered, and
\* completed when it has
joinMeetingResumeStoreFirst(t) ==
    LET meetingId == task[t].meetingId
        userId    == task[t].userId
        Attendee  == [AttendeeId |-> Len(attendeeLog) + 1, ExternalUserId |-> userId]
        Pending   == [AttendeeId |-> 0, ExternalUserId |-> userId]
    IN
    /\ task[t].pc = "awaitCreateAttendee"
    /\ task' = [task EXCEPT ![t] = Idle]
    /\ \E outcome \in Outcomes :
         IF outcome = Ok
         THEN /\ Len(attendeeLog) < MaxAttendees
              /\ attendeeLog' = Append(attendeeLog, [MeetingId |-> meetingId, ExternalUserId |-> userId])
              /\ IF Has(meetingId)
                 THEN /\ meetings' = [meetings EXCEPT ![meetingId].attendees =
                                        Put(@, userId, NewAttendee(userId, task[t].userName, Attendee))]
                      /\ res' = Response("/join-meeting", meetingId, 200, Ok, 1,
                                         JoinBody(meetingId, userId, Attendee))
                 ELSE /\ res' = Response("/join-meeting", meetingId, 500, TypeError, 1, NoBody)
                      /\ UNCHANGED meetings
         ELSE /\ res' = Response("/join-meeting", meetingId, 500, outcome, 1, NoBody)
              /\ meetings' = IF Has(meetingId)
                             THEN [meetings EXCEPT ![meetingId].attendees =
                                     Put(@, userId, NewAttendee(userId, task[t].userName, Pending))]
                             ELSE meetings
              /\ UNCHANGED attendeeLog
    /\ UNCHANGED <<entry, clock, cycles, nextMeetingId, deleteCalls>>

\* the remote CreateAttendee answers
joinMeetingResume(t) ==
    LET meetingId == task[t].meetingId
        userId    == task[t].userId
        Attendee  == [AttendeeId |-> Len(attendeeLog) + 1, ExternalUserId |-> userId]
    IN
    /\ task[t].pc = "awaitCreateAttendee"
    /\ task' = [task EXCEPT ![t] = Idle]
    /\ \E outcome \in Outcomes :
         IF outcome = Ok
         THEN /\ Len(attendeeLog) < MaxAttendees
              /\ attendeeLog' = Append(attendeeLog, [MeetingId |-> meetingId, ExternalUserId |-> userId])
              /\ IF Has(meetingId)
                 THEN /\ meetings' = [meetings EXCEPT ![meetingId].attendees =
                                        Put(@, userId, NewAttendee(userId, task[t].userName, Attendee))]
                      \* the answer copies fields that the write above leaves alone
                      /\ res' = Response("/join-meeting", meetingId, 200, Ok, 1,
                                         JoinBody(meetingId, userId, Attendee))
                 ELSE \* the meeting went away during the await: the write throws
                      /\ res' = Response("/join-meeting", meetingId, 500, TypeError, 1, NoBody)
                      /\ UNCHANGED meetings
         ELSE /\ res' = Response("/join-meeting", meetingId, 500, outcome, 1, NoBody)
              /\ UNCHANGED <<meetings, attendeeLog>>
    /\ UNCHANGED <<entry, clock, cycles, nextMeetingId, deleteCalls>>

\* ------------------------------------------------------------ POST /create-meeting
createMeeting(t, userId) ==
    /\ Free(t)
    /\ task' = [task EXCEPT ![t] =
                 Suspended("awaitCreateMeeting", "/create-meeting", NoId, userId, "", FALSE)]
    /\ res' = NoRes
    /\ UNCHANGED <<entry, clock, meetings, cycles, nextMeetingId, attendeeLog, deleteCalls>>

\* the record stored whatever the remote call answers
createMeetingAfterStoreFirst(userId, outcome) ==
    /\ nextMeetingId <= MaxMeetings
    /\ nextMeetingId' = nextMeetingId + 1
    /\ meetings' = Put(meetings, nextMeetingId,
                       NewMeeting(nextMeetingId,
                                  [MeetingId |-> nextMeetingId, ExternalMeetingId |-> "uuid"],
                                  userId))
    /\ res' = IF outcome = Ok
              THEN Response("/create-meeting", nextMeetingId, 200, Ok, 1, NoBody)
              ELSE Response("/create-meeting", NoId, 500, outcome, 1, NoBody)

\* the record stored under the key of the first meeting, as when one
\* meeting at a time was kept
createMeetingAfterSameKey(userId, outcome) ==
    IF outcome = Ok
    THEN /\ nextMeetingId <= MaxMeetings
         /\ nextMeetingId' = nextMeetingId + 1
         /\ meetings' = Put(meetings, 1,
                            NewMeeting(1, [MeetingId |-> 1, ExternalMeetingId |-> "uuid"], userId))
         /\ res' = Response("/create-meeting", 1, 200, Ok, 1, NoBody)
    ELSE /\ res' = Response("/create-meeting", NoId, 500, outcome, 1, NoBody)
         /\ UNCHANGED <<meetings, nextMeetingId>>

\* the statements after `await chimeClient.send(createMeetingCommand)`
createMeetingAfter(userId, outcome) ==
    IF outcome = Ok
    THEN /\ nextMeetingId <= MaxMeetings
         /\ nextMeetingId' = nextMeetingId + 1
         /\ meetings' = Put(meetings, nextMeetingId,
                            NewMeeting(nextMeetingId,
                                       [MeetingId |-> nextMeetingId, ExternalMeetingId |-> "uuid"],
                                       userId))
         /\ res' = Response("/create-meeting", nextMeetingId, 200, Ok, 1, NoBody)
    ELSE /\ res' = Response("/create-meeting", NoId, 500, outcome, 1, NoBody)
         /\ UNCHANGED <<meetings, nextMeetingId>>

\* the remote CreateMeeting answers
createMeetingResume(t) ==
    /\ task[t].pc = "awaitCreateMeeting"
    /\ task' = [task EXCEPT ![t] = Idle]
    /\ \E outcome \in Outcomes : createMeetingAfter(task[t].userId, outcome)
    /\ UNCHANGED <<entry, clock, cycles, attendeeLog, deleteCalls>>

\* ------------------------------------------------------------ POST /start-transcription
\* every error of the remote call taken for a permission error
IsPermissionErrorAlways(error) == TRUE

\* index.js: error.name === 'AccessDeniedException' ||
\*           error.message.includes('Access Denied') || error.message.includes('not authorized')
IsPermissionError(error) ==
    \/ error.name = "AccessDeniedException"
    \/ Includes(error.message, "Access Denied")
    \/ Includes(error.message, "not authorized")

\* the record of the meeting written anew with the flag and the mode
SetTranscriptionAfresh(meetingId, enabled, method) ==
    [meetings EXCEPT ![meetingId] =
        [ meetingId            |-> meetingId,
          Meeting              |-> @.Meeting,
          creationTime         |-> toISOString(clock),
          attendees            |-> EmptyObject,
          transcriptionEnabled |-> enabled,
          transcriptionMethod  |-> method,
          creatorId            |-> @.creatorId ]]

\* meetings[meetingId].transcriptionEnabled = ...; .transcriptionMethod = ...
SetTranscription(meetingId, enabled, method) ==
    [meetings EXCEPT ![meetingId].transcriptionEnabled = enabled,
                     ![meetingId].transcriptionMethod = method]

\* meetings[meetingId].transcriptionEnabled = ... alone
SetTranscriptionEnabled(meetingId, enabled) ==
    [meetings EXCEPT ![meetingId].transcriptionEnabled = enabled]

startTranscription(t, meetingId) ==
    /\ Free(t)
    /\ IF NotFound(meetingId)
       THEN /\ res' = Response("/start-transcription", meetingId, 404, Ok, 0, NoBody)
            /\ UNCHANGED task
       ELSE /\ task' = [task EXCEPT ![t] =
                        Suspended("awaitStartTranscription", "/start-transcription", meetingId, "", "", FALSE)]
            /\ res' = NoRes
    /\ UNCHANGED <<entry, clock, meetings, cycles, nextMeetingId, attendeeLog, deleteCalls>>

\* the remote StartMeetingTranscription answers, index.js
startTranscriptionIndex(meetingId, outcome) ==
    IF outcome = Ok
    THEN IF Has(meetingId)
         THEN /\ meetings' = SetTranscription(meetingId, TRUE, "aws")
              /\ res' = Response("/start-transcription", meetingId, 200, outcome, 1, NoBody)
         ELSE \* the write throws inside the inner try; a TypeError is no permission error
              /\ res' = Response("/start-transcription", meetingId, 500, TypeError, 1, NoBody)
              /\ UNCHANGED meetings
    ELSE IF IsPermissionError(outcome)
    THEN IF Has(meetingId)
         THEN /\ meetings' = SetTranscription(meetingId, TRUE, "alternative")
              /\ res' = Response("/start-transcription", meetingId, 403, outcome, 1,
                                 [alternativeAvailable |-> TRUE])
         ELSE \* the write throws inside the inner catch
              /\ res' = Response("/start-transcription", meetingId, 500, TypeError, 1, NoBody)
              /\ UNCHANGED meetings
    ELSE /\ res' = Response("/start-transcription", meetingId, 500, outcome, 1, NoBody)
         /\ UNCHANGED meetings

\* the remote StartMeetingTranscription answers, server.js
startTranscriptionServer(meetingId, outcome) ==
    IF outcome = Ok
    THEN IF Has(meetingId)
         THEN /\ meetings' = SetTranscriptionEnabled(meetingId, TRUE)
              /\ res' = Response("/start-transcription", meetingId, 200, outcome, 1, NoBody)
         ELSE /\ res' = Response("/start-transcription", meetingId, 500, TypeError, 1, NoBody)
              /\ UNCHANGED meetings
    ELSE /\ res' = Response("/start-transcription", meetingId, 500, outcome, 1, NoBody)
         /\ UNCHANGED meetings

startTranscriptionResume(t) ==
    /\ task[t].pc = "awaitStartTranscription"
    /\ task' = [task EXCEPT ![t] = Idle]
    /\ \E outcome \in StartOutcomes :
         IF entry = "index.js"
         THEN startTranscriptionIndex(task[t].meetingId, outcome)
         ELSE startTranscriptionServer(task[t].meetingId, outcome)
    /\ UNCHANGED <<entry, clock, cycles, nextMeetingId, attendeeLog, deleteCalls>>

\* ------------------------------------------------------------ POST /stop-transcription
\* the remote call left out for a meeting that is not transcribed
stopTranscriptionIfEnabled(t, meetingId) ==
    /\ Free(t)
    /\ IF NotFound(meetingId)
       THEN /\ res' = Response("/stop-transcription", meetingId, 404, Ok, 0, NoBody)
            /\ UNCHANGED task
       ELSE IF ~meetings[meetingId].transcriptionEnabled
       THEN /\ res' = Response("/stop-transcription", meetingId, 200, Ok, 0, NoBody)
            /\ UNCHANGED task
       ELSE /\ task' = [task EXCEPT ![t] =
                        Suspended("awaitStopTranscription", "/stop-transcription", meetingId, "", "", FALSE)]
            /\ res' = NoRes
    /\ UNCHANGED <<entry, clock, meetings, cycles, nextMeetingId, attendeeLog, deleteCalls>>

stopTranscription(t, meetingId) ==
    /\ Free(t)
    /\ IF NotFound(meetingId)
       THEN /\ res' = Response("/stop-transcription", meetingId, 404, Ok, 0, NoBody)
            /\ UNCHANGED task
       ELSE /\ task' = [task EXCEPT ![t] =
                        Suspended("awaitStopTranscription", "/stop-transcription", meetingId, "", "", FALSE)]
            /\ res' = NoRes
    /\ UNCHANGED <<entry, clock, meetings, cycles, nextMeetingId, attendeeLog, deleteCalls>>

\* the flag cleared before the answer of the remote call is looked at
stopTranscriptionAlways(meetingId, outcome) ==
    IF Has(meetingId)
    THEN /\ meetings' = SetTranscriptionEnabled(meetingId, FALSE)
         /\ res' = Response("/stop-transcription", meetingId,
                            IF outcome = Ok THEN 200 ELSE 500, outcome, 1, NoBody)
    ELSE /\ res' = Response("/stop-transcription", meetingId, 500, TypeError, 1, NoBody)
         /\ UNCHANGED meetings

\* the flag written to an entry made on the spot when the meeting is gone
stopTranscriptionAfterUpsert(meetingId, outcome) ==
    IF outcome = Ok
    THEN /\ meetings' = IF Has(meetingId)
                        THEN SetTranscriptionEnabled(meetingId, FALSE)
                        ELSE Put(meetings, meetingId, [transcriptionEnabled |-> FALSE])
         /\ res' = Response("/stop-transcription", meetingId, 200, outcome, 1, NoBody)
    ELSE /\ res' = Response("/stop-transcription", meetingId, 500, outcome, 1, NoBody)
         /\ UNCHANGED meetings

\* the statements after `await chimeClient.send(stopTranscriptionCommand)`
stopTranscriptionAfter(meetingId, outcome) ==
    IF outcome = Ok
    THEN IF Has(meetingId)
         THEN /\ meetings' = SetTranscriptionEnabled(meetingId, FALSE)
              /\ res' = Response("/stop-transcription", meetingId, 200, outcome, 1, NoBody)
         ELSE /\ res' = Response("/stop-transcription", meetingId, 500, TypeError, 1, NoBody)
              /\ UNCHANGED meetings
    ELSE /\ res' = Response("/stop-transcription", meetingId, 500, outcome, 1, NoBody)
         /\ UNCHANGED meetings

stopTranscriptionResume(t) ==
    /\ task[t].pc = "awaitStopTranscription"
    /\ task' = [task EXCEPT ![t] = Idle]
    /\ \E outcome \in Outcomes : stopTranscriptionAfter(task[t].meetingId, outcome)
    /\ UNCHANGED <<entry, clock, cycles, nextMeetingId, attendeeLog, deleteCalls>>

\* ------------------------------------------------------------ POST /start-transcription-alternative
\* the alternative started only for a meeting that is not transcribed yet
startTranscriptionAlternativeUnlessOn(meetingId) ==
    /\ IF NotFound(meetingId)
       THEN /\ res' = Response("/start-transcription-alternative", meetingId, 404, Ok, 0, NoBody)
            /\ UNCHANGED meetings
       ELSE IF ~Has(meetingId)
       THEN /\ res' = Response("/start-transcription-alternative", meetingId, 500, TypeError, 0, NoBody)
            /\ UNCHANGED meetings
       ELSE /\ meetings' = IF meetings[meetingId].transcriptionEnabled
                           THEN meetings
                           ELSE SetTranscription(meetingId, TRUE, "alternative")
            /\ res' = Response("/start-transcription-alternative", meetingId, 200, Ok, 0, NoBody)
    /\ UNCHANGED <<entry, clock, task, cycles, nextMeetingId, attendeeLog, deleteCalls>>

startTranscriptionAlternative(meetingId) ==
    /\ IF NotFound(meetingId)
       THEN /\ res' = Response("/start-transcription-alternative", meetingId, 404, Ok, 0, NoBody)
            /\ UNCHANGED meetings
       ELSE IF ~Has(meetingId)
       THEN /\ res' = Response("/start-transcription-alternative", meetingId, 500, TypeError, 0, NoBody)
            /\ UNCHANGED meetings
       ELSE /\ meetings' = SetTranscription(meetingId, TRUE, "alternative")
            /\ res' = Response("/start-transcription-alternative", meetingId, 200, Ok, 0, NoBody)
    /\ UNCHANGED <<entry, clock, task, cycles, nextMeetingId, attendeeLog, deleteCalls>>

\* ------------------------------------------------------------ DELETE /delete-meeting/:meetingId, POST /delete-meeting
\* Both handlers have the same body; `route` tells them apart.
removeMeeting(t, route, meetingId) ==
    /\ Free(t)
    /\ IF NotFound(meetingId)
       THEN /\ res' = Response(route, meetingId, 404, Ok, 0, NoBody)
            /\ UNCHANGED <<task, deleteCalls>>
       ELSE /\ task' = [task EXCEPT ![t] =
                        Suspended("awaitDeleteMeeting", route, meetingId, "", "", FALSE)]
            /\ deleteCalls' = IF meetingId \in DOMAIN deleteCalls
                              THEN [deleteCalls EXCEPT ![meetingId] = @ + 1]
                              ELSE deleteCalls
            /\ res' = NoRes
    /\ UNCHANGED <<entry, clock, meetings, cycles, nextMeetingId, attendeeLog>>

\* a DELETE request always carries the id: it is part of the path
deleteMeeting(t, meetingId) == removeMeeting(t, "DELETE /delete-meeting", meetingId)

postDeleteMeeting(t, meetingId) == removeMeeting(t, "POST /delete-meeting", meetingId)

\* the remote DeleteMeeting sent again when it has failed
deleteMeetingResumeRetrying(t) ==
    /\ task[t].pc = "awaitDeleteMeeting"
    /\ \E outcome \in Outcomes :
         IF outcome = Ok
         THEN /\ task' = [task EXCEPT ![t] = Idle]
              /\ res' = Response(task[t].route, task[t].meetingId, 200, outcome, 1, NoBody)
              /\ meetings' = Delete(meetings, task[t].meetingId)
              /\ UNCHANGED deleteCalls
         ELSE /\ deleteCalls[task[t].meetingId] < 3
              /\ deleteCalls' = [deleteCalls EXCEPT ![task[t].meetingId] = @ + 1]
              /\ res' = NoRes
              /\ UNCHANGED <<task, meetings>>
    /\ UNCHANGED <<entry, clock, cycles, nextMeetingId, attendeeLog>>

\* the remote DeleteMeeting answers: its failure is caught and ignored
deleteMeetingResume(t) ==
    /\ task[t].pc = "awaitDeleteMeeting"
    /\ task' = [task EXCEPT ![t] = Idle]
    /\ \E outcome \in Outcomes :
         res' = Response(task[t].route, task[t].meetingId, 200, outcome, 1, NoBody)
    /\ meetings' = Delete(meetings, task[t].meetingId)
    /\ UNCHANGED <<entry, clock, cycles, nextMeetingId, attendeeLog, deleteCalls>>

\* ------------------------------------------------------------ GET /check-transcription/:meetingId
checkTranscription(t, meetingId) ==
    /\ Free(t)
    /\ IF NotFound(meetingId)
       THEN /\ res' = Response("/check-transcription", meetingId, 404, Ok, 0, NoBody)
            /\ UNCHANGED task
       ELSE IF ~Has(meetingId)
       THEN /\ res' = Response("/check-transcription", meetingId, 500, TypeError, 0, NoBody)
            /\ UNCHANGED task
       ELSE \* isEnabledLocally is read before the await
            /\ task' = [task EXCEPT ![t] =
                        Suspended("awaitGetMeeting", "/check-transcription", meetingId, "", "",
                                  meetings[meetingId].transcriptionEnabled)]
            /\ res' = NoRes
    /\ UNCHANGED <<entry, clock, meetings, cycles, nextMeetingId, attendeeLog, deleteCalls>>

\* the failure of the remote GetMeeting not caught where it happens
checkTranscriptionResumeFatal(t) ==
    /\ task[t].pc = "awaitGetMeeting"
    /\ task' = [task EXCEPT ![t] = Idle]
    /\ \E outcome \in Outcomes, active \in BOOLEAN :
         res' = IF outcome = Ok
                THEN Response("/check-transcription", task[t].meetingId, 200, outcome, 1,
                              [local |-> task[t].local, chime |-> active])
                ELSE Response("/check-transcription", task[t].meetingId, 500, outcome, 1, NoBody)
    /\ UNCHANGED <<entry, clock, meetings, cycles, nextMeetingId, attendeeLog, deleteCalls>>

\* the remote GetMeeting answers; `active` is what its
\* Meeting.MeetingFeatures.Transcription.Status says
checkTranscriptionResume(t) ==
    /\ task[t].pc = "awaitGetMeeting"
    /\ task' = [task EXCEPT ![t] = Idle]
    /\ \E outcome \in Outcomes, active \in BOOLEAN :
         res' = Response("/check-transcription", task[t].meetingId, 200, outcome, 1,
                         [local |-> task[t].local, chime |-> (outcome = Ok /\ active)])
    /\ UNCHANGED <<entry, clock, meetings, cycles, nextMeetingId, attendeeLog, deleteCalls>>

\* ------------------------------------------------------------ cleanupExpiredMeetings
\* the comparison written the other way round: !(now - creationTime <= EXPIRY_MS)
IsExpiredUnlessYoung(now, creationTime) ==
    LET age == Minus(now, creationTime)
    IN  ~(age.type # "NaN" /\ age.ms <= EXPIRY_MS)

\* now - meetings[meetingId].creationTime > EXPIRY_MS
IsExpired(now, creationTime) == GreaterThan(Minus(now, creationTime), Number(EXPIRY_MS))

\* The for-loop over the snapshot `keys`, from its next key to its next await
\* or to its end.  Reading creationTime of a meeting that is gone throws, and
\* the promise of the cycle rejects.
RECURSIVE Sweep(_, _, _)
Sweep(registry, keys, now) ==
    IF keys = <<>>
    THEN [pc |-> "done", keys |-> <<>>, meetingId |-> NoId]
    ELSE IF Head(keys) \notin DOMAIN registry
    THEN [pc |-> "threw", keys |-> <<>>, meetingId |-> Head(keys)]
    ELSE IF IsExpired(now, registry[Head(keys)].creationTime)
    THEN [pc |-> "awaitDeleteMeeting", keys |-> Tail(keys), meetingId |-> Head(keys)]
    ELSE Sweep(registry, Tail(keys), now)

IdleCycle == [pc |-> "idle", now |-> 0, keys |-> <<>>, meetingId |-> NoId]

\* the end of a cycle: its promise resolves ("done") or rejects ("threw")
CycleEnd(how, now) ==
    [ op |-> "cleanupExpiredMeetings", meetingId |-> NoId, status |-> 0,
      error |-> IF how = "threw" THEN TypeError.name ELSE Ok.name, calls |-> 0,
      body |-> [now |-> now] ]

\* where the loop stands after running on from `keys`
CycleStep(c, registry, keys, now) ==
    LET r == Sweep(registry, keys, Number(now))
    IN  IF r.pc = "awaitDeleteMeeting"
        THEN /\ cycles' = [cycles EXCEPT ![c] =
                            [pc |-> r.pc, now |-> now, keys |-> r.keys, meetingId |-> r.meetingId]]
             /\ deleteCalls' = [deleteCalls EXCEPT ![r.meetingId] = @ + 1]
             /\ res' = NoRes
        ELSE /\ cycles' = [cycles EXCEPT ![c] = IdleCycle]
             /\ UNCHANGED deleteCalls
             /\ res' = CycleEnd(r.pc, now)

\* One run of the cycle in slot c: from the timer to the first await or the
\* end, or from the answer of the remote DeleteMeeting to the next await or
\* the end.  setInterval starts a cycle whether or not another is suspended.
cleanupExpiredMeetings(c) ==
    /\ IF cycles[c].pc = "idle"
       THEN /\ CycleStep(c, meetings, Keys(meetings), clock)
            /\ UNCHANGED meetings
       ELSE \* the failure of the remote call is caught and ignored
            /\ meetings' = Delete(meetings, cycles[c].meetingId)
            /\ CycleStep(c, Delete(meetings, cycles[c].meetingId), cycles[c].keys, cycles[c].now)
    /\ UNCHANGED <<entry, clock, task, nextMeetingId, attendeeLog>>

\* ------------------------------------------------------------ time
Tick ==
    /\ clock < MaxTicks * ClockStep
    /\ clock' = clock + ClockStep
    /\ res' = NoRes
    /\ UNCHANGED <<entry, meetings, task, cycles, nextMeetingId, attendeeLog, deleteCalls>>

\* ------------------------------------------------------------ the system
RequestIds == MeetingIds \cup {NoId}

Next ==
    \/ listMeetings
    \/ \E t \in Tasks, meetingId \in RequestIds, userId \in UserIds, userName \in UserNames :
         joinMeeting(t, meetingId, userId, userName)
    \/ \E t \in Tasks : joinMeetingResume(t)
    \/ \E t \in Tasks, userId \in UserIds : createMeeting(t, userId)
    \/ \E t \in Tasks : createMeetingResume(t)
    \/ \E t \in Tasks, meetingId \in RequestIds : startTranscription(t, meetingId)
    \/ \E t \in Tasks : startTranscriptionResume(t)
    \/ \E t \in Tasks, meetingId \in RequestIds : stopTranscription(t, meetingId)
    \/ \E t \in Tasks : stopTranscriptionResume(t)
    \/ \E meetingId \in RequestIds : startTranscriptionAlternative(meetingId)
    \/ \E t \in Tasks, meetingId \in MeetingIds : deleteMeeting(t, meetingId)
    \/ \E t \in Tasks, meetingId \in RequestIds : postDeleteMeeting(t, meetingId)
    \/ \E t \in Tasks : deleteMeetingResume(t)
    \/ \E t \in Tasks, meetingId \in RequestIds : checkTranscription(t, meetingId)
    \/ \E t \in Tasks : checkTranscriptionResume(t)
    \/ \E c \in Cycles : cleanupExpiredMeetings(c)
    \/ Tick

Spec == Init /\ [][Next]_vars

\* ------------------------------------------------------------ parts of the system
\* The handlers that read or write the attendees of a meeting.
NextJoin ==
    \/ \E t \in Tasks, meetingId \in RequestIds, userId \in UserIds, userName \in UserNames :
         joinMeeting(t, meetingId, userId, userName)
    \/ \E t \in Tasks : joinMeetingResume(t)
    \/ \E t \in Tasks, userId \in UserIds : createMeeting(t, userId)
    \/ \E t \in Tasks : createMeetingResume(t)
    \/ \E t \in Tasks, meetingId \in MeetingIds : deleteMeeting(t, meetingId)
    \/ \E t \in Tasks : deleteMeetingResume(t)

SpecJoin == Init /\ [][NextJoin]_vars

\* The handlers and the timer that add and remove meetings.
NextLifecycle ==
    \/ \E t \in Tasks, userId \in UserIds : createMeeting(t, userId)
    \/ \E t \in Tasks : createMeetingResume(t)
    \/ \E t \in Tasks, meetingId \in MeetingIds : deleteMeeting(t, meetingId)
    \/ \E t \in Tasks, meetingId \in RequestIds : postDeleteMeeting(t, meetingId)
    \/ \E t \in Tasks : deleteMeetingResume(t)
    \/ \E c \in Cycles : cleanupExpiredMeetings(c)
    \/ Tick

SpecLifecycle == Init /\ [][NextLifecycle]_vars

\* The handlers that read or write the transcription fields of a meeting.
NextTranscription ==
    \/ \E t \in Tasks, userId \in UserIds : createMeeting(t, userId)
    \/ \E t \in Tasks : createMeetingResume(t)
    \/ \E t \in Tasks, meetingId \in RequestIds : startTranscription(t, meetingId)
    \/ \E t \in Tasks : startTranscriptionResume(t)
    \/ \E t \in Tasks, meetingId \in RequestIds : stopTranscription(t, meetingId)
    \/ \E t \in Tasks : stopTranscriptionResume(t)
    \/ \E meetingId \in RequestIds : startTranscriptionAlternative(meetingId)
    \/ \E t \in Tasks, meetingId \in RequestIds : checkTranscription(t, meetingId)
    \/ \E t \in Tasks : checkTranscriptionResume(t)
    \/ \E t \in Tasks, meetingId \in MeetingIds : deleteMeeting(t, meetingId)
    \/ \E t \in Tasks : deleteMeetingResume(t)

SpecTranscription == Init /\ [][NextTranscription]_vars

\* All the request handlers, with one user who joins without a userName.
NextRequests ==
    \/ \E t \in Tasks, meetingId \in RequestIds :
         joinMeeting(t, meetingId, "u1", "")
    \/ \E t \in Tasks : joinMeetingResume(t)
    \/ \E t \in Tasks : createMeeting(t, "u1")
    \/ \E t \in Tasks : createMeetingResume(t)
    \/ \E t \in Tasks, meetingId \in RequestIds : startTranscription(t, meetingId)
    \/ \E t \in Tasks : startTranscriptionResume(t)
    \/ \E t \in Tasks, meetingId \in RequestIds : stopTranscription(t, meetingId)
    \/ \E t \in Tasks : stopTranscriptionResume(t)
    \/ \E meetingId \in RequestIds : startTranscriptionAlternative(meetingId)
    \/ \E t \in Tasks, meetingId \in MeetingIds : deleteMeeting(t, meetingId)
    \/ \E t \in Tasks, meetingId \in RequestIds : postDeleteMeeting(t, meetingId)
    \/ \E t \in Tasks : deleteMeetingResume(t)
    \/ \E t \in Tasks, meetingId \in RequestIds : checkTranscription(t, meetingId)
    \/ \E t \in Tasks : checkTranscriptionResume(t)
    \/ listMeetings

SpecRequests == Init /\ [][NextRequests]_vars

\* ------------------------------------------------------------ steps, as the claims name them
\* the handler suspended on `pc` in slot t runs on to its response
Resumes(t, pc) == task[t].pc = pc /\ task'[t].pc = "idle"

\* a request in slot t sends its remote command and suspends on `pc`
Suspends(t, pc) == task[t].pc = "idle" /\ task'[t].pc = pc

\* a request on `route` is answered in the step that receives it
AnswersAtOnce(route) == task' = task /\ res'.op = route

\* the instant the stored creationTime names
CreatedAt(meetingId) == meetings[meetingId].creationTime.ms

Attendees(meetingId) == DOMAIN meetings[meetingId].attendees

\* ------------------------------------------------------------ claims

\* C1: a Join of a user the meeting does not hold yet, once the remote
\* CreateAttendee has answered, stores the attendee it returns, raises the
\* attendee count by one and has made one remote call; a Join of a user the
\* meeting already holds (the second of two calls in a row) is answered at
\* once with the stored attendee, makes no remote call and leaves the registry
\* and the provider's attendees as they are.
JoinTwiceIsOneAttendee ==
    [][ /\ \A t \in Tasks :
             (Resumes(t, "awaitCreateAttendee") /\ res'.status = 200) =>
                LET meetingId == task[t].meetingId
                    userId    == task[t].userId
                IN  /\ res'.calls = 1
                    /\ Len(attendeeLog') = Len(attendeeLog) + 1
                    /\ meetings'[meetingId].attendees[userId].attendeeInfo = res'.body.attendeeInfo
                    /\ userId \notin Attendees(meetingId) =>
                         Cardinality(DOMAIN meetings'[meetingId].attendees)
                            = Cardinality(Attendees(meetingId)) + 1
        /\ \A t \in Tasks :
             Suspends(t, "awaitCreateAttendee") =>
                task'[t].userId \notin Attendees(task'[t].meetingId)
        /\ AnswersAtOnce("/join-meeting") =>
             /\ res'.status \in {200, 404}
             /\ res'.status = 404 => ~Has(res'.meetingId)
             /\ res'.status = 200 =>
                  /\ res'.body.attendeeInfo
                        = meetings[res'.meetingId].attendees[res'.body.attendeeInfo.ExternalUserId].attendeeInfo
                  /\ res'.calls = 0
                  /\ UNCHANGED <<meetings, attendeeLog>>
      ]_vars

\* C1 happens: a second Join was answered with the one attendee the provider
\* created, the only one of the meeting.
JoinTwiceWitness ==
    /\ res.op = "/join-meeting" /\ res.status = 200 /\ res.calls = 0
    /\ Has(res.meetingId)
    /\ Cardinality(Attendees(res.meetingId)) = 1
    /\ Len(attendeeLog) = 1
    /\ res.body.attendeeInfo.AttendeeId = 1

\* C2: the remote provider creates at most one attendee for a meeting and a
\* user, however the Joins of that user interleave.
OneAttendeePerUser ==
    \A i, j \in 1 .. Len(attendeeLog) : attendeeLog[i] = attendeeLog[j] => i = j

\* C3: once a cleanup cycle has ended, no meeting whose age at the start of
\* that cycle exceeded one hour is left in the registry.
ReapedOnceExpired ==
    res.op = "cleanupExpiredMeetings" =>
        \A meetingId \in DOMAIN meetings : ~(res.body.now - CreatedAt(meetingId) > EXPIRY_MS)

\* C4: a meeting whose age is at most one hour leaves the registry only in
\* the step in which a delete request, suspended on its remote DeleteMeeting,
\* runs on; no cleanup cycle removes it.
YoungMeetingsStay ==
    [][ \A meetingId \in DOMAIN meetings :
          (meetingId \notin DOMAIN meetings' /\ clock - CreatedAt(meetingId) <= EXPIRY_MS) =>
             \E t \in Tasks : Resumes(t, "awaitDeleteMeeting") /\ task[t].meetingId = meetingId
      ]_vars

\* C4 happens: a cleanup cycle has just ended and a meeting aged exactly one
\* hour is still there.
YoungMeetingsStayWitness ==
    /\ res.op = "cleanupExpiredMeetings"
    /\ \E meetingId \in DOMAIN meetings : res.body.now - CreatedAt(meetingId) = EXPIRY_MS

SessionRoutes ==
    { "/join-meeting", "/start-transcription", "/start-transcription-alternative",
      "/stop-transcription", "/check-transcription",
      "DELETE /delete-meeting", "POST /delete-meeting" }

\* the meeting was created and is gone
Removed(meetingId) == meetingId \in MeetingIds /\ meetingId < nextMeetingId /\ ~Has(meetingId)

\* C6: a removed meeting stays removed, and a request that names it, on any
\* route, is answered 404 at once: it sends no remote command and leaves the
\* registry and the provider as they are.
RemovalIsTerminal ==
    [][ /\ \A meetingId \in MeetingIds : Removed(meetingId) => meetingId \notin DOMAIN meetings'
        /\ \A t \in Tasks :
             (task[t].pc = "idle" /\ task'[t].pc \notin {"idle", "awaitCreateMeeting"}) =>
                ~Removed(task'[t].meetingId)
        /\ (task' = task /\ res'.op \in SessionRoutes /\ Removed(res'.meetingId)) =>
             /\ res'.status = 404
             /\ res'.calls = 0
             /\ UNCHANGED <<meetings, attendeeLog, deleteCalls, nextMeetingId>>
      ]_vars

\* C6 happens: a Join that names a removed meeting, which had an attendee,
\* has just been answered.
RemovalIsTerminalWitness ==
    /\ res.op = "/join-meeting" /\ res.status = 404
    /\ Removed(res.meetingId)
    /\ \E i \in 1 .. Len(attendeeLog) : attendeeLog[i].MeetingId = res.meetingId

\* C7: the flag and the mode of every meeting agree: enabled with mode 'aws'
\* or 'alternative', not enabled with no mode.
FlagAndModeAgree ==
    \A meetingId \in DOMAIN meetings :
        IF meetings[meetingId].transcriptionEnabled
        THEN meetings[meetingId].transcriptionMethod \in {"aws", "alternative"}
        ELSE meetings[meetingId].transcriptionMethod = "undefined"

\* the errors of the provider that say the caller lacks the permission
AuthorizationErrors == {"AccessDeniedException", "ForbiddenException"}

\* C8: a Start on a meeting the registry holds, whose remote call fails for
\* lack of permission, leaves the meeting enabled in mode 'alternative' and
\* is answered 403 with alternativeAvailable, not 500.
DeniedStartDegrades ==
    [][ \A t \in Tasks :
          (Resumes(t, "awaitStartTranscription") /\ Has(task[t].meetingId)
             /\ res'.error \in AuthorizationErrors) =>
             /\ task[t].meetingId \in DOMAIN meetings'
             /\ meetings'[task[t].meetingId].transcriptionEnabled
             /\ meetings'[task[t].meetingId].transcriptionMethod = "alternative"
             /\ res'.status = 403
             /\ res'.body = [alternativeAvailable |-> TRUE]
      ]_vars

\* C9: a Stop whose remote call fails is answered 500 and leaves the registry
\* as it was; a Stop whose remote call succeeds is answered 200 and clears the
\* flag; and the flag of a meeting is cleared in no other step.
FailedStopKeepsState ==
    [][ /\ \A t \in Tasks :
             (Resumes(t, "awaitStopTranscription") /\ Has(task[t].meetingId)) =>
                IF res'.error # Ok.name
                THEN res'.status = 500 /\ UNCHANGED meetings
                ELSE res'.status = 200 /\ ~meetings'[task[t].meetingId].transcriptionEnabled
        /\ \A meetingId \in (DOMAIN meetings) \cap (DOMAIN meetings') :
             (meetings[meetingId].transcriptionEnabled /\ ~meetings'[meetingId].transcriptionEnabled) =>
                \E t \in Tasks : /\ Resumes(t, "awaitStopTranscription")
                                 /\ task[t].meetingId = meetingId
                                 /\ res'.error = Ok.name
      ]_vars

\* C9 happens: a Stop has just failed on a meeting that is enabled.
FailedStopWitness ==
    /\ res.op = "/stop-transcription" /\ res.status = 500 /\ res.error = Failure.name
    /\ Has(res.meetingId)
    /\ meetings[res.meetingId].transcriptionEnabled

\* C10: sending CreateMeeting changes nothing; when it fails the request is
\* answered 500 and the registry is as it was; when it succeeds the registry
\* gains one meeting, under the id the provider assigned, which it did not
\* hold, that id is the answer, and every other meeting is as it was.
CreateIsAllOrNothing ==
    [][ \A t \in Tasks :
          /\ Suspends(t, "awaitCreateMeeting") => UNCHANGED <<meetings, nextMeetingId>>
          /\ Resumes(t, "awaitCreateMeeting") =>
               IF res'.error # Ok.name
               THEN res'.status = 500 /\ UNCHANGED meetings
               ELSE /\ res'.status = 200
                    /\ res'.meetingId = nextMeetingId
                    /\ ~Has(res'.meetingId)
                    /\ DOMAIN meetings' = (DOMAIN meetings) \cup {res'.meetingId}
                    /\ meetings'[res'.meetingId].meetingId = res'.meetingId
                    /\ \A other \in DOMAIN meetings : meetings'[other] = meetings[other]
      ]_vars

\* C10 happens: a Create has just failed while the registry holds a meeting
\* with an attendee.
CreateIsAllOrNothingWitness ==
    /\ res.op = "/create-meeting" /\ res.status = 500
    /\ \E meetingId \in DOMAIN meetings : Attendees(meetingId) # {}

\* C11: a Join whose remote CreateAttendee fails is answered 500 with the
\* provider's error and leaves the registry as it was: the attendees, the
\* transcription fields and the other fields of the meeting, and every other
\* meeting; the provider has created no attendee.
FailedJoinKeepsMeeting ==
    [][ \A t \in Tasks :
          (Resumes(t, "awaitCreateAttendee") /\ res'.error = Failure.name) =>
             /\ res'.status = 500
             /\ res'.calls = 1
             /\ UNCHANGED <<meetings, attendeeLog>>
      ]_vars

\* C11 happens: the Join of a second user has just failed on a meeting that
\* holds the first, and the meeting still holds the first alone.
FailedJoinWitness ==
    /\ res.op = "/join-meeting" /\ res.status = 500 /\ res.error = Failure.name
    /\ Has(res.meetingId)
    /\ Attendees(res.meetingId) = {"u1"}
    /\ \A i \in 1 .. Len(attendeeLog) : attendeeLog[i].ExternalUserId = "u1"

\* the meetings of the registry that a cycle started at `now` is to remove
ExpiredAt(now) == {meetingId \in DOMAIN meetings : now - CreatedAt(meetingId) > EXPIRY_MS}

ManualRemoveAlwaysRemoves ==
    [][ \A t \in Tasks :
          Resumes(t, "awaitDeleteMeeting") =>
             /\ res'.status = 200
             /\ task[t].meetingId \notin DOMAIN meetings'
      ]_vars

\* C13: a Join that names no meeting, or a meeting the registry does not
\* hold, is answered 404 at once, without a remote call and with the registry
\* and the provider's attendees as they were; and no Join sends CreateAttendee
\* for a meeting the registry does not hold.
JoinOfUnknownIsNotFound ==
    [][ /\ (AnswersAtOnce("/join-meeting") /\ ~Has(res'.meetingId)) =>
             /\ res'.status = 404
             /\ res'.calls = 0
             /\ UNCHANGED <<meetings, attendeeLog, nextMeetingId, deleteCalls>>
        /\ \A t \in Tasks :
             Suspends(t, "awaitCreateAttendee") => Has(task'[t].meetingId)
      ]_vars

\* C13 happens: a Join that names a meeting never created has just been
\* answered 404, while the registry holds another meeting.
JoinOfUnknownWitness ==
    /\ res.op = "/join-meeting" /\ res.status = 404
    /\ res.meetingId \in MeetingIds /\ res.meetingId >= nextMeetingId
    /\ meetings # EmptyObject

\* C14: in the state a successful Create leaves, the projection of the new
\* meeting has attendeeCount 0 and transcriptionEnabled false, the meeting
\* has no transcription mode, and a List that comes next shows that
\* projection.
CreatedMeetingIsEmpty ==
    [][ (res.op = "/create-meeting" /\ res.status = 200) =>
          /\ Has(res.meetingId)
          /\ Projection(res.meetingId).attendeeCount = 0
          /\ Projection(res.meetingId).transcriptionEnabled = FALSE
          /\ meetings[res.meetingId].transcriptionMethod = "undefined"
          /\ res'.op = "/list-meetings" =>
               \E i \in DOMAIN res'.body.list :
                  /\ res'.body.list[i].meetingId = res.meetingId
                  /\ res'.body.list[i].attendeeCount = 0
                  /\ res'.body.list[i].transcriptionEnabled = FALSE
      ]_vars

\* C14 happens: a second meeting has just been created while the first has
\* an attendee and is being transcribed.
CreatedMeetingWitness ==
    /\ res.op = "/create-meeting" /\ res.status = 200 /\ res.meetingId = 2
    /\ Has(1) /\ Attendees(1) # {} /\ meetings[1].transcriptionEnabled

\* C15: the registry holds the ids created and not removed, and no id comes
\* back: every id of the registry is one the provider has assigned; an id
\* enters the registry only in the step of a successful Create, and that id
\* is the one the provider assigns next, which the registry neither holds nor
\* ever held, so that no meeting is replaced; an id leaves the registry only
\* in the step in which a removal suspended on its DeleteMeeting runs on; and
\* the ids the provider has assigned are never assigned again.
RegistryIsCreatedNotRemoved ==
    [][ /\ DOMAIN meetings \subseteq 1 .. (nextMeetingId - 1)
        /\ nextMeetingId' >= nextMeetingId
        /\ \A meetingId \in (DOMAIN meetings') \ (DOMAIN meetings) :
             /\ \E t \in Tasks : Resumes(t, "awaitCreateMeeting")
             /\ res'.status = 200 /\ res'.meetingId = meetingId
             /\ meetingId = nextMeetingId /\ nextMeetingId' = nextMeetingId + 1
        /\ \A meetingId \in (DOMAIN meetings) \ (DOMAIN meetings') :
             \/ \E t \in Tasks : Resumes(t, "awaitDeleteMeeting") /\ task[t].meetingId = meetingId
             \/ \E c \in Cycles : /\ cycles[c].pc = "awaitDeleteMeeting"
                                  /\ cycles[c].meetingId = meetingId
                                  /\ cycles'[c] # cycles[c]
        /\ \A t \in Tasks :
             (Resumes(t, "awaitCreateMeeting") /\ res'.status = 200) =>
                /\ res'.meetingId \notin DOMAIN meetings
                /\ res'.meetingId \in DOMAIN meetings'
                /\ \A other \in DOMAIN meetings :
                     other \in DOMAIN meetings' /\ meetings'[other] = meetings[other]
        /\ \A t \in Tasks :
             Resumes(t, "awaitDeleteMeeting") => task[t].meetingId \notin DOMAIN meetings'
      ]_vars

\* C15 happens: the first meeting, which had an attendee, has been removed
\* and a second has just been created.
RegistryIsCreatedNotRemovedWitness ==
    /\ res.op = "/create-meeting" /\ res.status = 200
    /\ DOMAIN meetings = {2}
    /\ \E i \in 1 .. Len(attendeeLog) : attendeeLog[i].MeetingId = 1

\* C16: a List is answered 200 at once, without a remote call and with the
\* registry, the provider and the suspended requests as they were; its answer
\* has one entry for each meeting of the registry and no other, each with the
\* number of attendees of the meeting and its transcription flag; for an
\* empty registry the answer is the empty sequence.
ListShowsTheRegistry ==
    [][ res'.op = "/list-meetings" =>
          LET list == res'.body.list
          IN  /\ res'.status = 200 /\ res'.error = Ok.name /\ res'.calls = 0
              /\ UNCHANGED <<meetings, task, cycles, nextMeetingId, attendeeLog, deleteCalls>>
              /\ Len(list) = Cardinality(DOMAIN meetings)
              /\ meetings = EmptyObject => list = <<>>
              /\ \A meetingId \in DOMAIN meetings :
                   \E i \in 1 .. Len(list) : list[i].meetingId = meetingId
              /\ \A i \in 1 .. Len(list) :
                   /\ list[i].meetingId \in DOMAIN meetings
                   /\ list[i].attendeeCount = Cardinality(Attendees(list[i].meetingId))
                   /\ list[i].transcriptionEnabled = meetings[list[i].meetingId].transcriptionEnabled
      ]_vars

\* C16 happens: a List has just shown two meetings, one of them with an
\* attendee and transcribed, while a request is suspended.
ListShowsTheRegistryWitness ==
    /\ res.op = "/list-meetings" /\ Len(res.body.list) = 2
    /\ \E i \in 1 .. 2 : res.body.list[i].attendeeCount = 1 /\ res.body.list[i].transcriptionEnabled
    /\ \E i \in 1 .. 2 : res.body.list[i].attendeeCount = 0 /\ ~res.body.list[i].transcriptionEnabled
    /\ \E t \in Tasks : task[t].pc # "idle"

\* About C17: no cleanup cycle is ever suspended on a remote DeleteMeeting.
\* A cycle awaits only inside `if (now - creationTime > EXPIRY_MS)`, which is
\* never true, so every cycle runs from the timer to its end in one step and
\* the timer never fires while a cycle is under way.
NoCycleEverWaits ==
    \A c \in Cycles : cycles[c].pc = "idle"

\* C18: a cycle reaps every meeting that is expired when it starts, whatever
\* the remote DeleteMeeting answers for each: a cycle that starts while
\* meetings are expired goes on to the DeleteMeeting of one of them; and a
\* cycle that runs on after a DeleteMeeting, failed or not, has removed that
\* meeting and ends only when none of the meetings expired at its start is
\* left.
FailedReapDoesNotStopTheCycle ==
    [][ \A c \in Cycles :
          /\ ( /\ cycles[c].pc = "idle"
               /\ cycles'[c].pc # "idle" \/ res'.op = "cleanupExpiredMeetings"
               /\ ExpiredAt(clock) # {} ) =>
                  /\ cycles'[c].pc = "awaitDeleteMeeting"
                  /\ cycles'[c].meetingId \in ExpiredAt(clock)
          /\ (cycles[c].pc = "awaitDeleteMeeting" /\ cycles'[c] # cycles[c]) =>
                  /\ cycles[c].meetingId \notin DOMAIN meetings'
                  /\ res'.op = "cleanupExpiredMeetings" =>
                       ExpiredAt(cycles[c].now) \cap DOMAIN meetings' = {}
      ]_vars

\* the suspended request in slot t runs on
ResumeOf(t) ==
    \/ joinMeetingResume(t)
    \/ createMeetingResume(t)
    \/ startTranscriptionResume(t)
    \/ stopTranscriptionResume(t)
    \/ deleteMeetingResume(t)
    \/ checkTranscriptionResume(t)

\* a request that names meetingId can be received and run to its answer or
\* to its own remote call, on every route
CanBeReceived(meetingId) ==
    /\ ENABLED (\E s \in Tasks : joinMeeting(s, meetingId, "u1", ""))
    /\ ENABLED (\E s \in Tasks : startTranscription(s, meetingId))
    /\ ENABLED (\E s \in Tasks : stopTranscription(s, meetingId))
    /\ ENABLED (\E s \in Tasks : checkTranscription(s, meetingId))
    /\ ENABLED (\E s \in Tasks : deleteMeeting(s, meetingId))
    /\ ENABLED (\E s \in Tasks : postDeleteMeeting(s, meetingId))
    /\ ENABLED startTranscriptionAlternative(meetingId)

\* C19: while a request is suspended on its remote call, however long, a
\* List can be answered, a request on any other meeting and a Create can be
\* received (as long as the server has a slot for it), and a request
\* suspended for another meeting can run on as soon as its own remote call
\* answers.
HungCallStallsOnlyItsRequest ==
    \A t \in Tasks :
        task[t].pc # "idle" =>
            /\ ENABLED listMeetings
            /\ (\E s \in Tasks : task[s].pc = "idle") =>
                 /\ ENABLED (\E s \in Tasks : createMeeting(s, "u1"))
                 /\ \A meetingId \in (DOMAIN meetings) \ {task[t].meetingId} :
                      CanBeReceived(meetingId)
            /\ \A s \in Tasks \ {t} :
                 (task[s].pc # "idle" /\ task[s].meetingId # task[t].meetingId) =>
                    ENABLED ResumeOf(s)

\* C19 happens: while a Join of meeting 1 is suspended on its CreateAttendee,
\* a Join of meeting 2 has been received, has made its own remote call and
\* has been answered.
HungCallWitness ==
    /\ task[1].pc = "awaitCreateAttendee" /\ task[1].meetingId = 1
    /\ res.op = "/join-meeting" /\ res.meetingId = 2 /\ res.status = 200 /\ res.calls = 1

\* C20: the remote DeleteMeeting is sent at most once for a meeting, however
\* the delete requests that name it interleave.
OneDeletePerMeeting ==
    \A meetingId \in MeetingIds : deleteCalls[meetingId] <= 1

\* C22: a Start whose remote call fails for another reason than a lack of
\* permission is answered 500 and leaves the registry, and with it the flag
\* and the mode of the meeting, as it was.
FailedStartKeepsState ==
    [][ \A t \in Tasks :
          ( /\ Resumes(t, "awaitStartTranscription")
            /\ Has(task[t].meetingId)
            /\ res'.error = Failure.name ) =>
               /\ res'.status = 500
               /\ res'.calls = 1
               /\ UNCHANGED meetings
      ]_vars

\* C22 happens: a Start has just failed with ServiceUnavailableException on
\* a meeting that is being transcribed.
FailedStartWitness ==
    /\ res.op = "/start-transcription" /\ res.status = 500 /\ res.error = Failure.name
    /\ Has(res.meetingId)
    /\ meetings[res.meetingId].transcriptionEnabled

\* the transcription fields of a meeting: the flag and the mode
Transcription(meeting) == <<meeting.transcriptionEnabled, meeting.transcriptionMethod>>

\* C23: a meeting enters the registry not transcribed and without mode; a
\* Start whose remote call succeeds leaves it enabled in mode 'aws'; a Stop
\* whose remote call succeeds leaves it not enabled and without mode; and the
\* flag and the mode of a meeting change in no step but one of a Start, a
\* Stop or a /start-transcription-alternative that names it.
TranscriptionStateMachine ==
    [][ /\ \A meetingId \in (DOMAIN meetings') \ (DOMAIN meetings) :
             Transcription(meetings'[meetingId]) = <<FALSE, "undefined">>
        /\ \A t \in Tasks :
             ( /\ Resumes(t, "awaitStartTranscription")
               /\ Has(task[t].meetingId) /\ res'.status = 200 ) =>
                  Transcription(meetings'[task[t].meetingId]) = <<TRUE, "aws">>
        /\ \A t \in Tasks :
             ( /\ Resumes(t, "awaitStopTranscription")
               /\ Has(task[t].meetingId) /\ res'.status = 200 ) =>
                  Transcription(meetings'[task[t].meetingId]) = <<FALSE, "undefined">>
        /\ \A meetingId \in (DOMAIN meetings) \cap (DOMAIN meetings') :
             Transcription(meetings'[meetingId]) # Transcription(meetings[meetingId]) =>
                \/ \E t \in Tasks :
                     /\ Resumes(t, "awaitStartTranscription") \/ Resumes(t, "awaitStopTranscription")
                     /\ task[t].meetingId = meetingId
                \/ /\ AnswersAtOnce("/start-transcription-alternative")
                   /\ res'.meetingId = meetingId
      ]_vars

\* C24: a /start-transcription-alternative that names a meeting of the
\* registry is answered 200 at once, without a remote call, and leaves that
\* meeting enabled in mode 'alternative' whatever its flag and mode were,
\* with its other fields and the other meetings as they were; one that names
\* no meeting of the registry is answered 404 and changes nothing; it has no
\* other answer.
StartAlternativeAlwaysDegrades ==
    [][ AnswersAtOnce("/start-transcription-alternative") =>
          /\ res'.calls = 0
          /\ UNCHANGED <<nextMeetingId, attendeeLog, deleteCalls>>
          /\ IF Has(res'.meetingId)
             THEN /\ res'.status = 200
                  /\ meetings' = [meetings EXCEPT
                                    ![res'.meetingId].transcriptionEnabled = TRUE,
                                    ![res'.meetingId].transcriptionMethod = "alternative"]
             ELSE /\ res'.status = 404
                  /\ UNCHANGED meetings
      ]_vars

\* C24 happens: a /start-transcription-alternative has just been answered
\* 200 and the meeting it names is enabled in mode 'alternative'.
StartAlternativeWitness ==
    /\ res.op = "/start-transcription-alternative" /\ res.status = 200 /\ res.calls = 0
    /\ Has(res.meetingId)
    /\ Transcription(meetings[res.meetingId]) = <<TRUE, "alternative">>

\* C25: a Stop that names a meeting of the registry is never answered in the
\* step that receives it: it sends the remote StopMeetingTranscription and
\* waits for it, whatever the flag and the mode of the meeting, and its
\* answer counts that one remote call.
StopAlwaysAsksTheProvider ==
    [][ /\ AnswersAtOnce("/stop-transcription") =>
             ~Has(res'.meetingId) /\ res'.status = 404
        /\ \A t \in Tasks :
             Resumes(t, "awaitStopTranscription") => res'.calls = 1
      ]_vars

\* C25 happens: a Stop is waiting for the provider on behalf of a meeting
\* that is not transcribed, and another on behalf of a meeting in mode
\* 'alternative'.
StopAlwaysAsksWitness ==
    /\ \E t \in Tasks :
         /\ task[t].pc = "awaitStopTranscription" /\ Has(task[t].meetingId)
         /\ Transcription(meetings[task[t].meetingId]) = <<FALSE, "undefined">>
    /\ \E t \in Tasks :
         /\ task[t].pc = "awaitStopTranscription" /\ Has(task[t].meetingId)
         /\ Transcription(meetings[task[t].meetingId]) = <<TRUE, "alternative">>

\* C26: a /check-transcription that names a meeting of the registry reads
\* the flag of the meeting and asks the provider; whatever the provider
\* answers, the request is answered 200 with the flag it read, and with a
\* remote status of false when the remote GetMeeting failed; neither step
\* changes the registry.
CheckNeverFailsOnTheProvider ==
    [][ \A t \in Tasks :
          /\ Suspends(t, "awaitGetMeeting") =>
               /\ Has(task'[t].meetingId)
               /\ task'[t].local = meetings[task'[t].meetingId].transcriptionEnabled
               /\ UNCHANGED meetings
          /\ Resumes(t, "awaitGetMeeting") =>
               /\ res'.status = 200
               /\ res'.body.local = task[t].local
               /\ res'.error # Ok.name => res'.body.chime = FALSE
               /\ UNCHANGED meetings
      ]_vars

\* C26 happens: a /check-transcription whose remote GetMeeting failed has
\* just been answered 200 for a meeting that is transcribed.
CheckNeverFailsWitness ==
    /\ res.op = "/check-transcription" /\ res.status = 200 /\ res.error = Failure.name
    /\ res.body.local /\ ~res.body.chime
    /\ Has(res.meetingId) /\ meetings[res.meetingId].transcriptionEnabled

\* C27: no handler sends its remote command twice.  A suspended request
\* that takes a step is answered in that step, and its answer counts one
\* remote call; the provider receives a DeleteMeeting for a meeting only in
\* the step in which a delete request that names it is received, or in which
\* a cleanup cycle reaches it, and one at a time; and one step makes the
\* provider create at most one meeting and at most one attendee.
NoOperationIsRetried ==
    [][ /\ \A t \in Tasks :
             (task[t].pc # "idle" /\ task'[t] # task[t]) =>
                task'[t].pc = "idle" /\ res'.calls = 1
        /\ res'.calls <= 1
        /\ \A meetingId \in MeetingIds :
             deleteCalls'[meetingId] # deleteCalls[meetingId] =>
                /\ deleteCalls'[meetingId] = deleteCalls[meetingId] + 1
                /\ \/ \E t \in Tasks : /\ Suspends(t, "awaitDeleteMeeting")
                                       /\ task'[t].meetingId = meetingId
                   \/ \E c \in Cycles : /\ cycles'[c] # cycles[c]
                                        /\ cycles'[c].pc = "awaitDeleteMeeting"
                                        /\ cycles'[c].meetingId = meetingId
        /\ nextMeetingId' <= nextMeetingId + 1
        /\ Len(attendeeLog') <= Len(attendeeLog) + 1
      ]_vars

\* C27 happens: a delete request whose remote DeleteMeeting failed has just
\* been answered, and the provider has received one DeleteMeeting for that
\* meeting.
NoOperationIsRetriedWitness ==
    /\ res.op = "DELETE /delete-meeting" /\ res.error = Failure.name /\ res.calls = 1
    /\ deleteCalls[res.meetingId] = 1

\* C28: as long as the registry holds a meeting, no step takes an attendee
\* away from it, its attendees change only in the step in which a Join that
\* names it runs on after its remote call, and its meetingId, creationTime,
\* creatorId and Meeting stay as /create-meeting stored them.
AttendeesGrowIdentityStays ==
    [][ \A meetingId \in (DOMAIN meetings) \cap (DOMAIN meetings') :
          /\ Attendees(meetingId) \subseteq DOMAIN meetings'[meetingId].attendees
          /\ meetings'[meetingId].attendees # meetings[meetingId].attendees =>
               \E t \in Tasks : /\ Resumes(t, "awaitCreateAttendee")
                                /\ task[t].meetingId = meetingId
          /\ meetings'[meetingId].meetingId = meetings[meetingId].meetingId
          /\ meetings'[meetingId].creationTime = meetings[meetingId].creationTime
          /\ meetings'[meetingId].creatorId = meetings[meetingId].creatorId
          /\ meetings'[meetingId].Meeting = meetings[meetingId].Meeting
      ]_vars

\* C28 happens: a /start-transcription-alternative has just been answered
\* for a meeting that has an attendee, while the other meeting has gone.
AttendeesGrowWitness ==
    /\ res.op = "/start-transcription-alternative" /\ res.status = 200
    /\ Has(res.meetingId) /\ Attendees(res.meetingId) = {"u1"}
    /\ \E meetingId \in MeetingIds : Removed(meetingId)

\* C29: a Join, a Start or a Stop that runs on after its remote call when
\* the meeting it names has left the registry is answered 500 and leaves the
\* registry as it is: the meeting does not come back and nothing is written
\* for it, whatever the remote call answered.
NoResurrection ==
    [][ \A t \in Tasks :
          ( /\ \/ Resumes(t, "awaitCreateAttendee")
               \/ Resumes(t, "awaitStartTranscription")
               \/ Resumes(t, "awaitStopTranscription")
            /\ ~Has(task[t].meetingId) ) =>
               /\ res'.status = 500
               /\ UNCHANGED meetings
      ]_vars

\* C29 happens: a Join whose remote CreateAttendee succeeded has just been
\* answered 500, the meeting having been removed while it waited.
NoResurrectionWitness ==
    /\ res.op = "/join-meeting" /\ res.status = 500 /\ res.error = TypeError.name
    /\ res.calls = 1
    /\ Removed(res.meetingId)
    /\ \E i \in 1 .. Len(attendeeLog) : attendeeLog[i].MeetingId = res.meetingId

\* the meeting a step works for: the one named by the suspended request that
\* runs on, or by the request answered in the step that receives it
WorksFor(meetingId) ==
    \/ \E t \in Tasks : /\ task[t].pc # "idle" /\ task'[t].pc = "idle"
                        /\ task[t].meetingId = meetingId
    \/ task' = task /\ res'.meetingId = meetingId

\* C30: a step changes or removes no meeting but the one it works for: every
\* other meeting of the registry is there afterwards with the same attendees,
\* the same flag and mode and the same other fields.
OtherMeetingsUntouched ==
    [][ \A meetingId \in DOMAIN meetings :
          (meetingId \notin DOMAIN meetings' \/ meetings'[meetingId] # meetings[meetingId]) =>
             WorksFor(meetingId)
      ]_vars

\* C30 happens: meeting 1 has just been removed by a delete request, and
\* meeting 2 is there with its attendee and its transcription.
OtherMeetingsWitness ==
    /\ res.op = "DELETE /delete-meeting" /\ res.status = 200 /\ res.meetingId = 1
    /\ ~Has(1) /\ Has(2)
    /\ Attendees(2) = {"u1"}
    /\ meetings[2].transcriptionEnabled

====
